---------------------------- MODULE Spec2Model ----------------------------
(***************************************************************************)
(* pi-lite-monitor: the /api/stats handler get_stats (src/main.rs), its    *)
(* probes get_docker_count and get_last_update, and the tokio RwLock that  *)
(* guards the shared sysinfo::System handle.                               *)
(*                                                                         *)
(* A request is a process walking through get_stats line by line.  `world` *)
(* is everything the handler reads from outside the process: the OS        *)
(* counters, the volumes, interfaces and sensors, the docker command's     *)
(* outcome, the two apt marker paths, and the build profile (whether       *)
(* integer overflow is checked, as in a dev build, or wraps, as in a       *)
(* release build).                                                         *)
(*                                                                         *)
(* Number representation.  TLC's integers are 32 bits wide, so u64 is      *)
(* modelled as arithmetic modulo U64Modulus = 2^30: byte counts range over *)
(* 0 .. 2^30-1 and wrap there.  The divisors 1000024 and 1048576 are the   *)
(* program's.  f32 values are records [cls, val]: cls is "finite", "nan"   *)
(* or "inf"; the IEEE rules for x/0 are the ones of the language.          *)
(***************************************************************************)
EXTENDS Integers, Sequences, FiniteSets, TLC

VARIABLES world, pc, writer, queue, handle, loc, stats

vars == <<world, pc, writer, queue, handle, loc, stats>>

---------------------------------------------------------------------------
(* Bounds of the model *)

NumRequests == 3
MaxInterfaces == 2
MaxSensors == 2
MaxVolumes == 2
MaxStdout == 3

(* Program constants *)

MemDiskDivisor == 1000024
NetDivisor == 1048576
SecondsPerHour == 3600
U64Modulus == 1073741824

Requests == 1..NumRequests
NoReq == 0

SeqUpTo(S, n) == UNION {[1..k -> S] : k \in 0..n}

---------------------------------------------------------------------------
(* Machine arithmetic *)

AddU64(a, b) == (a + b) % U64Modulus

AddOverflows(a, b) == a + b >= U64Modulus

SubU64(a, b) == (a - b + U64Modulus) % U64Modulus

SubOverflows(a, b) == a < b

\* The wrapping sum of a sequence of u64 and whether any addition overflowed,
\* folded left to right from 0 as Iterator::sum and the += loop do.
RECURSIVE SumU64(_)
SumU64(s) ==
    IF s = <<>> THEN [val |-> 0, ovf |-> FALSE]
    ELSE LET rest == SumU64(SubSeq(s, 1, Len(s) - 1))
             x    == s[Len(s)]
         IN  [val |-> AddU64(rest.val, x),
              ovf |-> rest.ovf \/ AddOverflows(rest.val, x)]

F32Finite(v) == [cls |-> "finite", val |-> v]
F32NaN == [cls |-> "nan", val |-> 0]
F32Inf == [cls |-> "inf", val |-> 0]

\* used as f32 / total as f32 * 100.0; a finite result is kept in tenths of a
\* percent (floor).  0/0 is NaN and x/0 is +inf for x > 0; both survive * 100.0.
MemPercentage(used, total) ==
    IF total = 0
    THEN (IF used = 0 THEN F32NaN ELSE F32Inf)
    ELSE F32Finite((used * 1000) \div total)

ToMegabytesRounded(bytes) == (bytes + MemDiskDivisor \div 2) \div MemDiskDivisor

ToMegabytes(bytes) == bytes \div MemDiskDivisor

ToNetMegabytes(bytes) == bytes \div NetDivisor

Column(s, f) == [i \in 1..Len(s) |-> s[i][f]]

---------------------------------------------------------------------------
(* Option<T> and unwrap_or_else *)

Some(x) == [some |-> TRUE, v |-> x]
None(blank) == [some |-> FALSE, v |-> blank]

UnwrapOrUnknown(o) == IF o.some THEN o.v ELSE "Unknown"

---------------------------------------------------------------------------
(* The temperature fold: the last sensor that reports a value wins *)

RECURSIVE SelectTemp(_)
SelectTemp(components) ==
    IF components = <<>> THEN F32Finite(0)
    ELSE LET last == components[Len(components)]
         IN  IF last.some THEN F32Finite(last.v)
             ELSE SelectTemp(SubSeq(components, 1, Len(components) - 1))

---------------------------------------------------------------------------
(* get_docker_count *)

\* str::lines(): the text is cut at every "\n"; what follows the last "\n"
\* is a line only when it is not empty.
RECURSIVE CountNewlines(_)
CountNewlines(s) ==
    IF s = <<>> THEN 0
    ELSE (IF Head(s) = "\n" THEN 1 ELSE 0) + CountNewlines(Tail(s))

LinesCount(s) ==
    CountNewlines(s) + (IF s # <<>> /\ s[Len(s)] # "\n" THEN 1 ELSE 0)

\* out is the Result of Command::output(): Err when the command cannot be
\* started, else Ok with the exit status and the captured stdout.  The exit
\* status is not read.  (count() as u32 leaves the counts met here unchanged.)
get_docker_count(out) ==
    IF out.kind = "spawn_err" THEN 0 ELSE LinesCount(out.stdout)

---------------------------------------------------------------------------
(* get_last_update *)

\* Days since 1970-01-01 to the civil date (proleptic Gregorian calendar).
CivilFromDays(z0) ==
    LET z   == z0 + 719468
        era == z \div 146097
        doe == z - era * 146097
        yoe == (doe - doe \div 1460 + doe \div 36524 - doe \div 146096) \div 365
        doy == doe - (365 * yoe + yoe \div 4 - yoe \div 100)
        mp  == (5 * doy + 2) \div 153
        d   == doy - (153 * mp + 2) \div 5 + 1
        m   == IF mp < 10 THEN mp + 3 ELSE mp - 9
        y   == yoe + era * 400 + (IF m <= 2 THEN 1 ELSE 0)
    IN  <<y, m, d>>

\* DateTime<Local>::format("%Y-%m-%d %H:%M"): the fields of the local time,
\* the seconds dropped.
FormatLocal(t, tz) ==
    LET l   == t + tz
        day == l \div 86400
        sod == l - day * 86400
        ymd == CivilFromDays(day)
    IN  [text |-> "%Y-%m-%d %H:%M", Y |-> ymd[1], m |-> ymd[2], d |-> ymd[3],
         H |-> sod \div 3600, M |-> (sod % 3600) \div 60]

UnknownUpdate == [text |-> "Unknown", Y |-> 0, m |-> 0, d |-> 0, H |-> 0, M |-> 0]

Readable(marker) == marker.meta /\ marker.modified

get_last_update_secondary_first(primary, secondary, tz) ==
    IF Readable(secondary) THEN FormatLocal(secondary.time, tz)
    ELSE IF Readable(primary) THEN FormatLocal(primary.time, tz)
    ELSE UnknownUpdate

get_last_update(primary, secondary, tz) ==
    IF Readable(primary) THEN FormatLocal(primary.time, tz)
    ELSE IF Readable(secondary) THEN FormatLocal(secondary.time, tz)
    ELSE UnknownUpdate

---------------------------------------------------------------------------
(* What the handler can find outside the process *)

MemReadings ==
    { [total |-> 0, used |-> 0], [total |-> 0, used |-> 4096],
      [total |-> 1000023, used |-> 1000023], [total |-> 1000024, used |-> 500012],
      [total |-> 2000048, used |-> 1000024], [total |-> 2000047, used |-> 2000047] }

InterfaceReadings ==
    { [rx |-> 524288, tx |-> 524288], [rx |-> 1048576, tx |-> 2097151],
      [rx |-> 1000000000, tx |-> 0] }

SensorReadings == {None(0), Some(47), Some(62)}

VolumeReadings ==
    { [total |-> 500012, avail |-> 500011], [total |-> 1000024, avail |-> 400000],
      [total |-> 900000000, avail |-> 100000000], [total |-> 500000, avail |-> 1500000] }

StdoutChars == {"a", "!", "\n"}

DockerSpawnErr == [kind |-> "spawn_err", status |-> 0, stdout |-> <<>>]
DockerHangs == [kind |-> "hang", status |-> 0, stdout |-> <<>>]
DockerExit(st, out) == [kind |-> "exit", status |-> st, stdout |-> out]

DockerOutcomes ==
    {DockerSpawnErr, DockerHangs}
      \cup {DockerExit(st, out) : st \in {0, 1}, out \in SeqUpTo(StdoutChars, MaxStdout)}

MarkerTimes == {951827696, 1709251199}

MarkerAbsent == [meta |-> FALSE, modified |-> FALSE, time |-> 0]
MarkerNoMtime == [meta |-> TRUE, modified |-> FALSE, time |-> 0]
MarkerAt(t) == [meta |-> TRUE, modified |-> TRUE, time |-> t]

MarkerStates == {MarkerAbsent, MarkerNoMtime} \cup {MarkerAt(t) : t \in MarkerTimes}

TzOffsets == {0, 3600}

ConsistentDisks == << [total |-> 1000024, avail |-> 400000] >>
InconsistentDisks == << [total |-> 500000, avail |-> 1500000] >>

\* A healthy host: every source available.
BaseWorld ==
    [ overflowChecks |-> FALSE,
      mem     |-> [total |-> 2000048, used |-> 1000024],
      cpu     |-> 37,
      nets    |-> << [rx |-> 1048576, tx |-> 2097151] >>,
      temps   |-> << Some(47) >>,
      disks   |-> ConsistentDisks,
      uptime  |-> 7200,
      host    |-> Some("pi"),
      osname  |-> Some("Debian"),
      osver   |-> Some("12"),
      docker  |-> DockerExit(0, <<"a", "\n">>),
      primary |-> MarkerAt(951827696),
      secondary |-> MarkerAt(1709251199),
      tz      |-> 3600 ]

\* Worlds of the concurrency specifications: the docker call returns or hangs,
\* the volumes are consistent or not, either build profile.
ServerWorlds ==
    { [BaseWorld EXCEPT !.docker = d, !.disks = v, !.overflowChecks = b] :
        d \in {DockerExit(0, <<"a", "\n">>), DockerHangs},
        v \in {ConsistentDisks, InconsistentDisks},
        b \in BOOLEAN }

\* What the OS counters of a running server move between.
ServerReadings ==
    { [mem |-> [total |-> 2000048, used |-> 1000024], cpu |-> 37],
      [mem |-> [total |-> 2000048, used |-> 500012], cpu |-> 0] }

\* Worlds of the numeric specification: every memory reading, interface list and
\* volume list, either build profile.
NumericWorlds ==
    { [BaseWorld EXCEPT !.mem = m, !.nets = n, !.disks = v, !.overflowChecks = b] :
        m \in MemReadings,
        n \in SeqUpTo(InterfaceReadings, MaxInterfaces),
        v \in SeqUpTo(VolumeReadings, MaxVolumes),
        b \in BOOLEAN }

\* Worlds of the availability specification: every combination of available and
\* unavailable sources.
ProbeWorlds ==
    { [BaseWorld EXCEPT !.host = h, !.osname = n, !.osver = o, !.temps = t,
                        !.nets = i, !.docker = d, !.primary = p, !.secondary = s,
                        !.disks = v, !.overflowChecks = b] :
        h \in {None(""), Some("pi")},
        n \in {None(""), Some("Debian")},
        o \in {None(""), Some("12")},
        t \in SeqUpTo(SensorReadings, MaxSensors),
        i \in {<<>>, << [rx |-> 1048576, tx |-> 2097151] >>},
        d \in {DockerSpawnErr, DockerExit(0, <<"a", "\n">>)},
        p \in MarkerStates,
        s \in MarkerStates,
        v \in {ConsistentDisks, InconsistentDisks},
        b \in BOOLEAN }

\* Worlds of the container-count and last-update specification: every outcome of
\* the docker command, every state of the two markers, both time zones.
CommandWorlds ==
    { [BaseWorld EXCEPT !.docker = d, !.primary = p, !.secondary = s, !.tz = z] :
        d \in DockerOutcomes, p \in MarkerStates, s \in MarkerStates, z \in TzOffsets }

---------------------------------------------------------------------------
(* State of a request *)

BlankLoc ==
    [ cpu |-> F32Finite(0), total_received |-> 0, total_transmitted |-> 0,
      selecttemp |-> F32Finite(0), disk_total |-> 0, disk_free |-> 0,
      disk_used |-> 0, uptime_hours |-> 0, host |-> "", os |-> <<"", "">>,
      total_memory |-> 0, used_memory |-> 0, mempercentage |-> F32Finite(0),
      docker_containers |-> 0, panic_site |-> "",
      refreshed |-> [total |-> 0, used |-> 0, cpu |-> 0], sources |-> {} ]

BlankStats ==
    [ host |-> "", os |-> <<"", "">>, total_memory |-> 0, used_memory |-> 0,
      mempercentage |-> F32Finite(0), cpu_usage |-> F32Finite(0),
      temp |-> F32Finite(0), received |-> 0, transmitted |-> 0,
      total_disk |-> 0, used_disk |-> 0, free_disk |-> 0, uptime_hours |-> 0,
      docker_containers |-> 0, last_update |-> UnknownUpdate ]

\* The labels at which the write guard `sys` is alive: from the return of
\* system.write().await to the end of get_stats.
GuardScope ==
    {"refresh", "cpu", "net", "temp", "disk", "uptime", "build", "docker",
     "last_update"}

HoldsGuardRefreshOnly(p) == p = "refresh"

HoldsGuardLeakedOnPanic(p) == p \in GuardScope \cup {"panicked"}

HoldsGuard(p) == p \in GuardScope

\* Request r moves to label p; the guard is dropped when p is outside its scope
\* (return, or unwinding from a panic).
Goto(r, p) ==
    /\ pc' = [pc EXCEPT ![r] = p]
    /\ writer' = IF HoldsGuard(p) THEN r
                 ELSE IF writer = r THEN NoReq ELSE writer

CanAcquireShared(r) == queue # <<>> /\ Head(queue) = r

\* tokio's RwLock grants write access in FIFO order, to one holder at a time.
CanAcquire(r) == writer = NoReq /\ queue # <<>> /\ Head(queue) = r

ReadSystem(w) == [by |-> NoReq, total |-> w.mem.total, used |-> w.mem.used, cpu |-> w.cpu]

---------------------------------------------------------------------------
(* Initial states *)

InitServer(worlds) ==
    /\ world \in worlds
    /\ pc = [r \in Requests |-> "idle"]
    /\ writer = NoReq
    /\ queue = <<>>
    /\ handle = ReadSystem(world)
    /\ loc = [r \in Requests |-> BlankLoc]
    /\ stats = [r \in Requests |-> BlankStats]

Init == InitServer(ServerWorlds)

---------------------------------------------------------------------------
(* get_stats, step by step *)

\* A request for /api/stats arrives and calls system.write(): it queues for the lock.
Arrive(r) ==
    /\ pc[r] = "idle"
    /\ queue' = Append(queue, r)
    /\ Goto(r, "acquire")
    /\ UNCHANGED <<world, handle, loc, stats>>

\* system.write().await returns the guard.
Acquire(r) ==
    /\ pc[r] = "acquire"
    /\ CanAcquire(r)
    /\ queue' = Tail(queue)
    /\ Goto(r, "refresh")
    /\ UNCHANGED <<world, handle, loc, stats>>

\* sys.refresh_all()
RefreshAll(r) ==
    /\ pc[r] = "refresh"
    /\ handle' = [ReadSystem(world) EXCEPT !.by = r]
    /\ loc' = [loc EXCEPT ![r].refreshed =
                  [total |-> world.mem.total, used |-> world.mem.used, cpu |-> world.cpu]]
    /\ Goto(r, "cpu")
    /\ UNCHANGED <<world, queue, stats>>

\* let cpu = sys.global_cpu_usage();
ReadCpu(r) ==
    /\ pc[r] = "cpu"
    /\ loc' = [loc EXCEPT ![r].cpu = F32Finite(handle.cpu),
                          ![r].sources = @ \cup {handle.by}]
    /\ Goto(r, "net")
    /\ UNCHANGED <<world, queue, handle, stats>>

Panic(r, site) ==
    /\ loc' = [loc EXCEPT ![r].panic_site = site]
    /\ Goto(r, "panicked")

\* Networks::new_with_refreshed_list() and the two sums, each divided after summing.
NetworkProbe(r) ==
    /\ pc[r] = "net"
    /\ LET rx == SumU64(Column(world.nets, "rx"))
           tx == SumU64(Column(world.nets, "tx"))
       IN  IF world.overflowChecks /\ (rx.ovf \/ tx.ovf)
           THEN Panic(r, "net_sum")
           ELSE /\ loc' = [loc EXCEPT ![r].total_received = ToNetMegabytes(rx.val),
                                      ![r].total_transmitted = ToNetMegabytes(tx.val)]
                /\ Goto(r, "temp")
    /\ UNCHANGED <<world, queue, handle, stats>>

\* Components::new_with_refreshed_list() and the loop over the sensors.
TemperatureProbe(r) ==
    /\ pc[r] = "temp"
    /\ loc' = [loc EXCEPT ![r].selecttemp = SelectTemp(world.temps)]
    /\ Goto(r, "disk")
    /\ UNCHANGED <<world, queue, handle, stats>>

\* Disks::new_with_refreshed_list(), the += loop and disk_total - disk_free.
DiskProbe(r) ==
    /\ pc[r] = "disk"
    /\ LET total == SumU64(Column(world.disks, "total"))
           free  == SumU64(Column(world.disks, "avail"))
       IN  IF world.overflowChecks /\ (total.ovf \/ free.ovf)
           THEN Panic(r, "disk_add")
           ELSE IF world.overflowChecks /\ SubOverflows(total.val, free.val)
           THEN Panic(r, "disk_sub")
           ELSE /\ loc' = [loc EXCEPT ![r].disk_total = total.val,
                                      ![r].disk_free = free.val,
                                      ![r].disk_used = SubU64(total.val, free.val)]
                /\ Goto(r, "uptime")
    /\ UNCHANGED <<world, queue, handle, stats>>

\* System::uptime() / 3600
UptimeProbe(r) ==
    /\ pc[r] = "uptime"
    /\ loc' = [loc EXCEPT ![r].uptime_hours = world.uptime \div SecondsPerHour]
    /\ Goto(r, "build")
    /\ UNCHANGED <<world, queue, handle, stats>>

\* The fields of Stats up to uptime_hours, evaluated in the order written.
BuildFields(r) ==
    /\ pc[r] = "build"
    /\ loc' = [loc EXCEPT
                 ![r].host = UnwrapOrUnknown(world.host),
                 ![r].os = <<UnwrapOrUnknown(world.osname), UnwrapOrUnknown(world.osver)>>,
                 ![r].total_memory = ToMegabytes(handle.total),
                 ![r].used_memory = ToMegabytes(handle.used),
                 ![r].mempercentage = MemPercentage(handle.used, handle.total),
                 ![r].sources = @ \cup {handle.by}]
    /\ Goto(r, "docker")
    /\ UNCHANGED <<world, queue, handle, stats>>

\* docker_containers: get_docker_count().  Command::output() blocks until the
\* child exits: a docker call that hangs never lets this step happen.
DockerProbe(r) ==
    /\ pc[r] = "docker"
    /\ world.docker.kind # "hang"
    /\ loc' = [loc EXCEPT ![r].docker_containers = get_docker_count(world.docker)]
    /\ Goto(r, "last_update")
    /\ UNCHANGED <<world, queue, handle, stats>>

MakeStats(l, last) ==
    [ host |-> l.host, os |-> l.os, total_memory |-> l.total_memory,
      used_memory |-> l.used_memory, mempercentage |-> l.mempercentage,
      cpu_usage |-> l.cpu, temp |-> l.selecttemp, received |-> l.total_received,
      transmitted |-> l.total_transmitted,
      total_disk |-> ToMegabytes(l.disk_total),
      used_disk |-> ToMegabytes(l.disk_used),
      free_disk |-> ToMegabytes(l.disk_free),
      uptime_hours |-> l.uptime_hours, docker_containers |-> l.docker_containers,
      last_update |-> last ]

\* last_update: get_last_update(), then Json(Stats {..}) is returned and the
\* guard goes out of scope.
Return(r) ==
    /\ pc[r] = "last_update"
    /\ stats' = [stats EXCEPT ![r] =
                    MakeStats(loc[r], get_last_update(world.primary, world.secondary, world.tz))]
    /\ Goto(r, "done")
    /\ UNCHANGED <<world, queue, handle, loc>>

\* The response (or the closed connection of a panicked task) is behind us; the
\* client may ask again.
Respond(r) ==
    /\ pc[r] \in {"done", "panicked"}
    /\ loc' = [loc EXCEPT ![r] = BlankLoc]
    /\ stats' = [stats EXCEPT ![r] = BlankStats]
    /\ Goto(r, "idle")
    /\ UNCHANGED <<world, queue, handle>>

\* The machine keeps running: the OS's memory and CPU counters move.
OsActivity ==
    /\ \E x \in ServerReadings :
          /\ <<x.mem, x.cpu>> # <<world.mem, world.cpu>>
          /\ world' = [world EXCEPT !.mem = x.mem, !.cpu = x.cpu]
    /\ UNCHANGED <<pc, writer, queue, handle, loc, stats>>

Step(r) ==
    \/ RefreshAll(r)
    \/ ReadCpu(r)
    \/ NetworkProbe(r)
    \/ TemperatureProbe(r)
    \/ DiskProbe(r)
    \/ UptimeProbe(r)
    \/ BuildFields(r)
    \/ DockerProbe(r)
    \/ Return(r)

Next ==
    \/ \E r \in Requests : Arrive(r) \/ Acquire(r) \/ Step(r) \/ Respond(r)
    \/ OsActivity

Spec == Init /\ [][Next]_vars

\* Every task that can take a step takes it (the runtime schedules every ready
\* task) and the lock is handed to the head of its queue; nothing makes a
\* client send a request or a hung docker call return.
Fairness ==
    \A r \in Requests : WF_vars(Acquire(r)) /\ WF_vars(Step(r))

FairSpec == Spec /\ Fairness

\* One request against a fixed world: get_stats as a function of what it reads.
SoloNext == Arrive(1) \/ Acquire(1) \/ Step(1) \/ Respond(1)

NumericSpec == InitServer(NumericWorlds) /\ [][SoloNext]_vars

ProbeSpec == InitServer(ProbeWorlds) /\ [][SoloNext]_vars

CommandSpec == InitServer(CommandWorlds) /\ [][SoloNext]_vars

---------------------------------------------------------------------------
(* Properties *)

\* A request is building a snapshot from the moment system.write() has returned
\* until get_stats returns.
Building(r) ==
    pc[r] \in {"refresh", "cpu", "net", "temp", "disk", "uptime", "build", "docker",
               "last_update"}

Ended(r) == pc[r] \in {"done", "panicked"}

\* C1: at most one request at a time is between acquiring the write lock and
\* returning from get_stats, and a request in that span holds the lock through
\* every step of it (refresh, probes, construction of Stats).
SerializedBuilds ==
    /\ \A r \in Requests : Building(r) => writer = r
    /\ \A r1, r2 \in Requests : Building(r1) /\ Building(r2) => r1 = r2

\* One request is past every probe but the last, still holding the lock, while
\* another waits for it.
SerializedBuildsWitness ==
    \E r1, r2 \in Requests :
        /\ r1 # r2
        /\ pc[r1] = "last_update" /\ writer = r1
        /\ pc[r2] = "acquire"

\* C2: in every returned snapshot the handle-derived fields (cpu_usage,
\* total_memory, used_memory, mempercentage) all come from the handle state that
\* the same request's refresh_all produced: every read of the handle saw that
\* refresh and no other.
SelfConsistentSnapshots ==
    \A r \in Requests :
        pc[r] = "done" =>
            /\ loc[r].sources = {r}
            /\ stats[r].cpu_usage = F32Finite(loc[r].refreshed.cpu)
            /\ stats[r].total_memory = loc[r].refreshed.total \div 1000024
            /\ stats[r].used_memory = loc[r].refreshed.used \div 1000024
            /\ loc[r].refreshed.total # 0 =>
                  stats[r].mempercentage
                    = F32Finite((loc[r].refreshed.used * 1000) \div loc[r].refreshed.total)

\* A snapshot has been returned and the handle has since been refreshed by
\* another request to different counters.
SelfConsistentSnapshotsWitness ==
    \E r \in Requests :
        /\ pc[r] = "done"
        /\ handle.by \in Requests \ {r}
        /\ handle.used # loc[r].refreshed.used

\* C3: a request that has ended, by returning a snapshot or by a panic, does
\* not hold the write lock: the lock is held only by a request that is still
\* building, so it is free for a later request.
GuardReleasedOnExit ==
    /\ \A r \in Requests : (Ended(r) \/ pc[r] = "idle") => writer # r
    /\ writer # NoReq => Building(writer)

\* A request has panicked and a different request has acquired the lock after it.
GuardReleasedOnExitWitness ==
    \E r1, r2 \in Requests :
        /\ r1 # r2
        /\ pc[r1] = "panicked"
        /\ writer = r2 /\ Building(r2)

\* C4 (as claimed): whenever the handle reports total_memory = 0, the snapshot's
\* mempercentage is 0.0, for every value of used_memory.
MemPercentageZeroGuard ==
    \A r \in Requests :
        (pc[r] = "done" /\ loc[r].refreshed.total = 0) =>
            stats[r].mempercentage = F32Finite(0)

\* The docker query failed: it could not be started, it exited with an error,
\* or its output is not a list of container IDs (one non-empty line of ID
\* characters per container).
IsIdList(out) ==
    /\ \A i \in 1..Len(out) : out[i] \in {"a", "\n"}
    /\ out # <<>> => out[1] # "\n"
    /\ \A i \in 1..(Len(out) - 1) : ~(out[i] = "\n" /\ out[i + 1] = "\n")

DockerQueryFailed(d) ==
    \/ d.kind = "spawn_err"
    \/ d.kind = "exit" /\ d.status # 0
    \/ d.kind = "exit" /\ ~IsIdList(d.stdout)

\* C5 (as claimed): get_docker_count returns 0 in every failure case of the
\* docker query, and a non-zero count only for a successful query that lists
\* running containers.
DockerCountZeroOnFailure ==
    \A r \in Requests :
        pc[r] = "done" =>
            /\ DockerQueryFailed(world.docker) => stats[r].docker_containers = 0
            /\ stats[r].docker_containers # 0 =>
                  /\ world.docker.kind = "exit" /\ world.docker.status = 0
                  /\ world.docker.stdout # <<>>

\* C6: get_last_update takes the primary marker's modification time whenever it
\* is readable, whatever the secondary marker; else the secondary marker's when
\* that is readable; else it is "Unknown".  A time is reported as local
\* YYYY-MM-DD HH:MM.
LastUpdatePriority ==
    \A r \in Requests :
        pc[r] = "done" =>
            LET got == stats[r].last_update
                p   == world.primary
                s   == world.secondary
            IN  /\ p.meta /\ p.modified => got = FormatLocal(p.time, world.tz)
                /\ ~(p.meta /\ p.modified) /\ (s.meta /\ s.modified)
                      => got = FormatLocal(s.time, world.tz)
                /\ ~(p.meta /\ p.modified) /\ ~(s.meta /\ s.modified)
                      => got.text = "Unknown"
                /\ got.text = "Unknown" \/
                     (got.text = "%Y-%m-%d %H:%M" /\ got.m \in 1..12 /\ got.d \in 1..31
                        /\ got.H \in 0..23 /\ got.M \in 0..59)

\* Both markers are readable, with different times, and the snapshot carries the
\* primary one's: 2000-02-29 12:34:56 UTC read in a zone one hour east.
LastUpdatePriorityWitness ==
    \E r \in Requests :
        /\ pc[r] = "done"
        /\ world.primary = MarkerAt(951827696)
        /\ world.secondary = MarkerAt(1709251199)
        /\ world.tz = 3600
        /\ stats[r].last_update
             = [text |-> "%Y-%m-%d %H:%M", Y |-> 2000, m |-> 2, d |-> 29, H |-> 13, M |-> 34]

NoSensorReports(temps) == \A i \in 1..Len(temps) : ~temps[i].some

\* C7 (as claimed): whatever combination of sources is unavailable, get_stats
\* completes and returns a snapshot in which each failed probe's field holds its
\* sentinel.
NoProbeFailureIsFatal ==
    \A r \in Requests :
        /\ pc[r] # "panicked"
        /\ pc[r] = "done" =>
              /\ ~world.host.some => stats[r].host = "Unknown"
              /\ ~world.osname.some => stats[r].os[1] = "Unknown"
              /\ ~world.osver.some => stats[r].os[2] = "Unknown"
              /\ NoSensorReports(world.temps) => stats[r].temp = F32Finite(0)
              /\ world.nets = <<>> => stats[r].received = 0 /\ stats[r].transmitted = 0
              /\ world.docker.kind = "spawn_err" => stats[r].docker_containers = 0
              /\ ~Readable(world.primary) /\ ~Readable(world.secondary)
                    => stats[r].last_update.text = "Unknown"

\* The sum of a column of readings, as a mathematical integer.
RECURSIVE MathSum(_)
MathSum(s) == IF s = <<>> THEN 0 ELSE Head(s) + MathSum(Tail(s))

\* The same sum in unsigned arithmetic of the machine's width.
RECURSIVE WrappedSum(_)
WrappedSum(s) == IF s = <<>> THEN 0 ELSE (Head(s) + WrappedSum(Tail(s))) % U64Modulus

\* C8 (as claimed): the disk computation never crashes the request, in
\* particular when the summed available space exceeds the summed total space,
\* and used_disk is then the wrapped difference in megabytes, or 0.
DiskComputationNeverCrashes ==
    \A r \in Requests :
        /\ ~(pc[r] = "panicked" /\ loc[r].panic_site = "disk_sub")
        /\ pc[r] = "done" =>
              LET total == WrappedSum(Column(world.disks, "total"))
                  avail == WrappedSum(Column(world.disks, "avail"))
              IN  stats[r].used_disk
                    \in {((total - avail + U64Modulus) % U64Modulus) \div 1000024, 0}

\* C9 (as claimed): every reported size is the floor of the raw byte count over
\* the divisor, the raw count being the sum over all volumes or interfaces
\* (and, for used_disk, the difference of the two sums).
ExactFloorConversions ==
    \A r \in Requests :
        pc[r] = "done" =>
            LET total == MathSum(Column(world.disks, "total"))
                avail == MathSum(Column(world.disks, "avail"))
                rx    == MathSum(Column(world.nets, "rx"))
                tx    == MathSum(Column(world.nets, "tx"))
            IN  /\ stats[r].total_memory = world.mem.total \div 1000024
                /\ stats[r].used_memory = world.mem.used \div 1000024
                /\ stats[r].total_disk = total \div 1000024
                /\ stats[r].free_disk = avail \div 1000024
                /\ stats[r].used_disk = (total - avail) \div 1000024
                /\ stats[r].received = rx \div 1048576
                /\ stats[r].transmitted = tx \div 1048576

\* C9 (amended): the same, with every sum and the difference taken in wrapping
\* unsigned arithmetic of the machine's width.
ExactFloorConversionsWrapping ==
    \A r \in Requests :
        pc[r] = "done" =>
            LET total == WrappedSum(Column(world.disks, "total"))
                avail == WrappedSum(Column(world.disks, "avail"))
                rx    == WrappedSum(Column(world.nets, "rx"))
                tx    == WrappedSum(Column(world.nets, "tx"))
            IN  /\ stats[r].total_memory = world.mem.total \div 1000024
                /\ stats[r].used_memory = world.mem.used \div 1000024
                /\ stats[r].total_disk = total \div 1000024
                /\ stats[r].free_disk = avail \div 1000024
                /\ stats[r].used_disk
                     = ((total - avail + U64Modulus) % U64Modulus) \div 1000024
                /\ stats[r].received = rx \div 1048576
                /\ stats[r].transmitted = tx \div 1048576

\* Two volumes and two interfaces, none of which reaches one megabyte alone,
\* add up to one megabyte each: the division follows the summation.
ExactFloorConversionsWitness ==
    \E r \in Requests :
        /\ pc[r] = "done"
        /\ Len(world.disks) = 2 /\ Len(world.nets) = 2
        /\ \A i \in 1..2 : world.disks[i].total < 1000024 /\ world.nets[i].rx < 1048576
        /\ stats[r].total_disk = 1
        /\ stats[r].received = 1
        /\ stats[r].total_memory = 1 /\ world.mem.total = 2000047

DockerHung(r) == pc[r] = "docker" /\ world.docker.kind = "hang"

\* While the docker call of a request hangs, the request stays where it is,
\* keeps the lock, and every request waiting for the lock keeps waiting.
HungDockerBlocksEveryone ==
    [][\A r \in Requests :
          DockerHung(r) =>
              /\ pc'[r] = "docker" /\ writer' = r
              /\ \A r2 \in Requests \ {r} : pc[r2] = "acquire" => pc'[r2] = "acquire"]_vars

\* When no docker call hangs, every request that asks for the lock ends, with a
\* snapshot or with a panic.
EveryRequestEnds ==
    (world.docker.kind # "hang") =>
        \A r \in Requests : (pc[r] = "acquire") ~> Ended(r)

\* C10 (as claimed): a docker call that never returns keeps its request, and
\* every request after it, waiting forever; and if every probe call terminates,
\* every request eventually acquires the lock and returns a snapshot.
HungDockerOrSnapshot ==
    /\ HungDockerBlocksEveryone
    /\ (world.docker.kind # "hang") =>
          \A r \in Requests : (pc[r] = "acquire") ~> (pc[r] = "done")

=============================================================================
